---- MODULE Spec2Model ----
(***************************************************************************)
(* Model of schema/schema.go: whole-document validation (Schema.Validate), *)
(* patch validation (Schema.ValidatePatchOperationValue), path resolution  *)
(* (findAttribute), the mutability guard (cannotBePatched) and the         *)
(* serialisation (Schema.MarshalJSON).                                     *)
(*                                                                         *)
(* Every operation is a pure function of the immutable schema and of the   *)
(* call's own input.  A behaviour is one call: Init draws the schema and   *)
(* the input of the call, the action of the called operation computes what *)
(* the code returns and records it.                                        *)
(*                                                                         *)
(* Strings that are compared with strings.EqualFold are sequences of       *)
(* one-character strings; a path is the sequence of its dot-separated      *)
(* segments.  A Go map is a function, and every range over a map takes an  *)
(* order chosen nondeterministically.  A nil pointer or nil map is <<>>,   *)
(* a non-nil one is <<x>>.                                                 *)
(***************************************************************************)
EXTENDS Integers, Sequences, FiniteSets, TLC

VARIABLES schema, call, pc, ret, validateCalls

vars == <<schema, call, pc, ret, validateCalls>>

----------------------------------------------------------------------------
(* Bounds of the model. *)

\* Largest number of fields of a resource document.
MaxFields == 2

\* Largest number of path/value pairs of one patch instruction.
MaxPairs == 2

----------------------------------------------------------------------------
(* errors.ValidationError: the closed enumeration. *)

ValidationErrorNil == "ValidationErrorNil"

ValidationErrorInvalidSyntax == "ValidationErrorInvalidSyntax"

ValidationErrorInvalidValue == "ValidationErrorInvalidValue"

ValidationErrors ==
  {ValidationErrorNil, ValidationErrorInvalidSyntax, ValidationErrorInvalidValue}

(* The mutability classes of an attribute. *)

attributeMutabilityImmutable == "immutable"

attributeMutabilityReadOnly == "readOnly"

attributeMutabilityReadWrite == "readWrite"

attributeMutabilityWriteOnly == "writeOnly"

Mutabilities ==
  {attributeMutabilityImmutable, attributeMutabilityReadOnly,
   attributeMutabilityReadWrite, attributeMutabilityWriteOnly}

----------------------------------------------------------------------------
(* strings.EqualFold on the letters the model uses. *)

FoldChar(c) ==
  CASE c = "N" -> "n"
    [] c = "M" -> "m"
    [] c = "I" -> "i"
    [] c = "D" -> "d"
    [] c = "F" -> "f"
    [] c = "X" -> "x"
    [] OTHER -> c

EqualFold(s, t) ==
  /\ Len(s) = Len(t)
  /\ \A i \in 1..Len(s) : FoldChar(s[i]) = FoldChar(t[i])

----------------------------------------------------------------------------
(* The mutability guard. *)

\* isImmutable that forgets "remove".
isImmutableReplaceOnly(op, attr) ==
  /\ attr.mutability = attributeMutabilityImmutable
  /\ op = "replace"

\* isImmutable that lets only "add" through.
isImmutableAllButAdd(op, attr) ==
  /\ attr.mutability = attributeMutabilityImmutable
  /\ op # "add"

isImmutable(op, attr) ==
  /\ attr.mutability = attributeMutabilityImmutable
  /\ (op = "replace" \/ op = "remove")

isReadOnly(attr) == attr.mutability = attributeMutabilityReadOnly

cannotBePatched(op, attr) == isImmutable(op, attr) \/ isReadOnly(attr)

----------------------------------------------------------------------------
(* The collaborators the engine consumes as opaque capabilities. *)

\* The nil interface value: the hit of an attribute no field matches.
NIL == "<nil>"

\* CoreAttribute.validate(value) -> (normalized, error).  The attribute
\* enforces its own required/optional policy on the absent value; the value
\* "bad" is one it rejects, with invalid-syntax when the attribute is complex
\* (the value has not the shape of its children) and with invalid-value when
\* it is simple.
validate(attr, v) ==
  CASE v = NIL ->
         IF attr.required
           THEN [val |-> NIL, err |-> ValidationErrorInvalidValue]
           ELSE [val |-> NIL, err |-> ValidationErrorNil]
    [] v = "bad" ->
         IF Len(attr.subAttributes) > 0
           THEN [val |-> NIL, err |-> ValidationErrorInvalidSyntax]
           ELSE [val |-> NIL, err |-> ValidationErrorInvalidValue]
    [] OTHER -> [val |-> v, err |-> ValidationErrorNil]

\* A segment the path grammar accepts: a non-empty name without a bracket.
ValidSegment(seg) ==
  /\ Len(seg) > 0
  /\ \A i \in 1..Len(seg) : seg[i] # "["

\* filter.Parser.ParsePath: the attribute name and the remaining sub-path of
\* a dotted path, or a parse error.
ParsePath(path) ==
  IF path = <<>> \/ ~ValidSegment(Head(path))
    THEN [err |-> TRUE, AttributeName |-> <<>>, SubAttribute |-> <<>>]
    ELSE [err |-> FALSE, AttributeName |-> Head(path),
          SubAttribute |-> Tail(path)]

----------------------------------------------------------------------------
(* Path resolution. *)

\* The index of the first attribute whose name folds to `name`, 0 if none:
\* the range over the attribute slice returns at its first match.
FirstMatch(attributes, name) ==
  IF \E i \in 1..Len(attributes) : EqualFold(attributes[i].name, name)
    THEN CHOOSE i \in 1..Len(attributes) :
           /\ EqualFold(attributes[i].name, name)
           /\ \A j \in 1..(i - 1) : ~EqualFold(attributes[j].name, name)
    ELSE 0

\* findAttribute that returns the matched attribute without descending.
findAttributeNoDescent(operation, path, attributes) ==
  LET p == ParsePath(path) IN
  IF p.err
    THEN [attr |-> <<>>, err |-> ValidationErrorInvalidValue]
    ELSE
      LET i == FirstMatch(attributes, p.AttributeName) IN
      IF i = 0
        THEN [attr |-> <<>>, err |-> ValidationErrorInvalidValue]
        ELSE IF cannotBePatched(operation, attributes[i])
          THEN [attr |-> <<>>, err |-> ValidationErrorInvalidValue]
          ELSE [attr |-> <<attributes[i]>>, err |-> ValidationErrorNil]

\* findAttribute that applies the guard to the returned attribute only.
RECURSIVE findAttributeGuardsLast(_, _, _)
findAttributeGuardsLast(operation, path, attributes) ==
  LET p == ParsePath(path) IN
  IF p.err
    THEN [attr |-> <<>>, err |-> ValidationErrorInvalidValue]
    ELSE
      LET i == FirstMatch(attributes, p.AttributeName) IN
      IF i = 0
        THEN [attr |-> <<>>, err |-> ValidationErrorInvalidValue]
        ELSE
          LET attr == attributes[i] IN
          IF p.SubAttribute # <<>> /\ Len(attr.subAttributes) > 0
            THEN findAttributeGuardsLast(operation, p.SubAttribute,
                                         attr.subAttributes)
            ELSE IF cannotBePatched(operation, attr)
              THEN [attr |-> <<>>, err |-> ValidationErrorInvalidValue]
              ELSE [attr |-> <<attr>>, err |-> ValidationErrorNil]

RECURSIVE findAttribute(_, _, _)
findAttribute(operation, path, attributes) ==
  LET p == ParsePath(path) IN
  IF p.err
    THEN [attr |-> <<>>, err |-> ValidationErrorInvalidValue]
    ELSE
      LET i == FirstMatch(attributes, p.AttributeName) IN
      IF i = 0
        THEN [attr |-> <<>>, err |-> ValidationErrorInvalidValue]
        ELSE
          LET attr == attributes[i] IN
          IF cannotBePatched(operation, attr)
            THEN [attr |-> <<>>, err |-> ValidationErrorInvalidValue]
            ELSE IF p.SubAttribute # <<>> /\ Len(attr.subAttributes) > 0
              THEN findAttribute(operation, p.SubAttribute, attr.subAttributes)
              ELSE [attr |-> <<attr>>, err |-> ValidationErrorNil]

----------------------------------------------------------------------------
(* Whole-document validation. *)

\* RangeCore without the duplicate check: the last matching field wins.
RECURSIVE RangeCoreLastWins(_, _, _, _, _, _)
RangeCoreLastWins(attribute, core, order, j, found, hit) ==
  IF j > Len(order)
    THEN [dup |-> FALSE, found |-> found, hit |-> hit]
    ELSE
      LET k == order[j] IN
      IF EqualFold(attribute.name, k)
        THEN RangeCoreLastWins(attribute, core, order, j + 1, TRUE, core[k])
        ELSE RangeCoreLastWins(attribute, core, order, j + 1, found, hit)

\* RangeCore that compares the names exactly instead of case-insensitively.
RECURSIVE RangeCoreExact(_, _, _, _, _, _)
RangeCoreExact(attribute, core, order, j, found, hit) ==
  IF j > Len(order)
    THEN [dup |-> FALSE, found |-> found, hit |-> hit]
    ELSE
      LET k == order[j] IN
      IF attribute.name = k
        THEN IF found
               THEN [dup |-> TRUE, found |-> found, hit |-> hit]
               ELSE RangeCoreExact(attribute, core, order, j + 1, TRUE, core[k])
        ELSE RangeCoreExact(attribute, core, order, j + 1, found, hit)

\* The inner range over the fields of the document for one attribute, in the
\* order `order`, from position j on: dup when a second field matches.
RECURSIVE RangeCore(_, _, _, _, _, _)
RangeCore(attribute, core, order, j, found, hit) ==
  IF j > Len(order)
    THEN [dup |-> FALSE, found |-> found, hit |-> hit]
    ELSE
      LET k == order[j] IN
      IF EqualFold(attribute.name, k)
        THEN IF found
               THEN [dup |-> TRUE, found |-> found, hit |-> hit]
               ELSE RangeCore(attribute, core, order, j + 1, TRUE, core[k])
        ELSE RangeCore(attribute, core, order, j + 1, found, hit)

\* The outer range over s.Attributes from position i on; `attributes` is the
\* output mapping built so far, `calls` the validate calls made so far.
RECURSIVE ValidateLoop(_, _, _, _, _, _)
ValidateLoop(s, i, core, orders, attributes, calls) ==
  IF i > Len(s.Attributes)
    THEN [attributes |-> <<attributes>>, err |-> ValidationErrorNil,
          calls |-> calls]
    ELSE
      LET attribute == s.Attributes[i]
          scan == RangeCore(attribute, core, orders[i], 1, FALSE, NIL)
      IN
      IF scan.dup
        THEN [attributes |-> <<>>, err |-> ValidationErrorInvalidSyntax,
              calls |-> calls]
        ELSE
          LET r == validate(attribute, scan.hit)
              made == Append(calls, <<attribute.name, scan.hit>>)
          IN
          IF r.err # ValidationErrorNil
            THEN [attributes |-> <<>>, err |-> r.err, calls |-> made]
            ELSE ValidateLoop(s, i + 1, core, orders,
                              (attribute.name :> r.val) @@ attributes, made)

\* Schema.Validate.  `orders[i]` is the order in which the range over the
\* document visits its fields for the i-th attribute.
Validate(s, resource, orders) ==
  IF resource.kind # "object"
    THEN [attributes |-> <<>>, err |-> ValidationErrorInvalidSyntax,
          calls |-> <<>>]
    ELSE ValidateLoop(s, 1, resource.fields, orders, <<>>, <<>>)

----------------------------------------------------------------------------
(* Patch validation. *)

\* PatchLoop that validates the value for "remove" too.
RECURSIVE PatchLoopAlwaysValidates(_, _, _, _, _, _)
PatchLoopAlwaysValidates(s, operation, operationValue, order, j, calls) ==
  IF j > Len(order)
    THEN [err |-> ValidationErrorNil, calls |-> calls]
    ELSE
      LET k == order[j]
          v == operationValue[k]
          found == findAttribute(operation, k, s.Attributes)
      IN
      IF found.err # ValidationErrorNil
        THEN [err |-> found.err, calls |-> calls]
        ELSE IF found.attr = <<>> \/ cannotBePatched(operation, found.attr[1])
          THEN [err |-> ValidationErrorInvalidValue, calls |-> calls]
          ELSE
            LET attr == found.attr[1]
                scimErr == validate(attr, v).err
                made == Append(calls, <<attr.name, v>>)
            IN
            IF scimErr # ValidationErrorNil
              THEN [err |-> scimErr, calls |-> made]
              ELSE PatchLoopAlwaysValidates(s, operation, operationValue,
                                            order, j + 1, made)

\* PatchLoop that skips a pair whose path does not resolve.
RECURSIVE PatchLoopSkipsUnresolved(_, _, _, _, _, _)
PatchLoopSkipsUnresolved(s, operation, operationValue, order, j, calls) ==
  IF j > Len(order)
    THEN [err |-> ValidationErrorNil, calls |-> calls]
    ELSE
      LET k == order[j]
          v == operationValue[k]
          found == findAttribute(operation, k, s.Attributes)
      IN
      IF found.err # ValidationErrorNil \/ found.attr = <<>>
        THEN PatchLoopSkipsUnresolved(s, operation, operationValue, order,
                                      j + 1, calls)
        ELSE
          LET attr == found.attr[1]
              scimErr == IF operation # "remove"
                           THEN validate(attr, v).err
                           ELSE ValidationErrorNil
              made == IF operation # "remove"
                        THEN Append(calls, <<attr.name, v>>)
                        ELSE calls
          IN
          IF scimErr # ValidationErrorNil
            THEN [err |-> scimErr, calls |-> made]
            ELSE PatchLoopSkipsUnresolved(s, operation, operationValue,
                                          order, j + 1, made)

\* PatchLoop that returns after the first pair it visits.
PatchLoopFirstPairOnly(s, operation, operationValue, order, j, calls) ==
  IF j > Len(order)
    THEN [err |-> ValidationErrorNil, calls |-> calls]
    ELSE
      LET k == order[j]
          v == operationValue[k]
          found == findAttribute(operation, k, s.Attributes)
      IN
      IF found.err # ValidationErrorNil
        THEN [err |-> found.err, calls |-> calls]
        ELSE IF found.attr = <<>> \/ cannotBePatched(operation, found.attr[1])
          THEN [err |-> ValidationErrorInvalidValue, calls |-> calls]
          ELSE
            LET attr == found.attr[1] IN
            IF operation # "remove"
              THEN [err |-> validate(attr, v).err,
                    calls |-> Append(calls, <<attr.name, v>>)]
              ELSE [err |-> ValidationErrorNil, calls |-> calls]

\* The range over operationValue in the order `order`, from position j on.
RECURSIVE PatchLoop(_, _, _, _, _, _)
PatchLoop(s, operation, operationValue, order, j, calls) ==
  IF j > Len(order)
    THEN [err |-> ValidationErrorNil, calls |-> calls]
    ELSE
      LET k == order[j]
          v == operationValue[k]
          found == findAttribute(operation, k, s.Attributes)
      IN
      IF found.err # ValidationErrorNil
        THEN [err |-> found.err, calls |-> calls]
        ELSE IF found.attr = <<>> \/ cannotBePatched(operation, found.attr[1])
          THEN [err |-> ValidationErrorInvalidValue, calls |-> calls]
          ELSE
            LET attr == found.attr[1]
                scimErr == IF operation # "remove"
                             THEN validate(attr, v).err
                             ELSE ValidationErrorNil
                made == IF operation # "remove"
                          THEN Append(calls, <<attr.name, v>>)
                          ELSE calls
            IN
            IF scimErr # ValidationErrorNil
              THEN [err |-> scimErr, calls |-> made]
              ELSE PatchLoop(s, operation, operationValue, order, j + 1, made)

\* Schema.ValidatePatchOperationValue.
ValidatePatchOperationValue(s, operation, operationValue, order) ==
  PatchLoop(s, operation, operationValue, order, 1, <<>>)

----------------------------------------------------------------------------
(* Serialisation. *)

\* optional.String.Value: the string, empty when absent.
OptionalValue(o) == IF o.present THEN o.value ELSE ""

\* The JSON rendering of an optional.String: the string when present, null
\* when absent.
OptionalJSON(o) ==
  IF o.present THEN [type |-> "string", value |-> o.value]
               ELSE [type |-> "null"]

\* CoreAttribute.getRawAttributes: the attribute's own document, its
\* children included.
RECURSIVE RawAttribute(_)
RawAttribute(a) ==
  [name |-> a.name, mutability |-> a.mutability, required |-> a.required,
   subAttributes |->
     [i \in 1..Len(a.subAttributes) |-> RawAttribute(a.subAttributes[i])]]

\* getRawAttributes that fills the slice from its end.
getRawAttributesReversed(s) ==
  [i \in 1..Len(s.Attributes) |->
     RawAttribute(s.Attributes[Len(s.Attributes) + 1 - i])]

\* Schema.getRawAttributes.
getRawAttributes(s) ==
  [i \in 1..Len(s.Attributes) |-> RawAttribute(s.Attributes[i])]

\* Schema.MarshalJSON: the JSON object, a mapping from key to rendered value.
MarshalJSON(s) ==
  ("id" :> [type |-> "string", value |-> s.ID])
  @@ ("name" :> OptionalJSON(s.Name))
  @@ ("description" :> [type |-> "string", value |-> OptionalValue(s.Description)])
  @@ ("attributes" :> [type |-> "array", value |-> getRawAttributes(s)])

----------------------------------------------------------------------------
(* The schemas and the inputs of the calls. *)

\* The names the schemas declare: two top-level attributes and a child.
nmName == <<"n", "m">>

idName == <<"I", "d">>

fnName == <<"f", "N">>

Attribute(name, mutability, required, subAttributes) ==
  [name |-> name, mutability |-> mutability, required |-> required,
   subAttributes |-> subAttributes]

\* The attribute "nm", flat or complex with the child "fN".
NmAttributes(muts, reqs, childMuts) ==
  {Attribute(nmName, m, r, c) :
     m \in muts, r \in reqs,
     c \in {<<>>} \cup {<<Attribute(fnName, cm, FALSE, <<>>)>> : cm \in childMuts}}

\* The flat attribute "Id".
IdAttributes(muts, reqs) ==
  {Attribute(idName, m, r, <<>>) : m \in muts, r \in reqs}

\* The attribute lists a schema is built with: sibling names are unique.
AttributeLists(muts, reqs, childMuts) ==
  LET nms == NmAttributes(muts, reqs, childMuts)
      ids == IdAttributes(muts, reqs)
  IN {<<>>}
     \cup {<<a>> : a \in nms \cup ids}
     \cup {<<a, b>> : a \in nms, b \in ids}
     \cup {<<b, a>> : a \in nms, b \in ids}

Optionals == {[present |-> FALSE, value |-> ""],
              [present |-> TRUE, value |-> ""],
              [present |-> TRUE, value |-> "User"]}

NewSchema(attributes, name, description) ==
  [ID |-> "urn:schema", Name |-> name, Description |-> description,
   Attributes |-> attributes]

\* The schemas of the calls that do not serialise: name set, no description.
Schemas(muts, reqs, childMuts) ==
  {NewSchema(a, [present |-> TRUE, value |-> "User"],
             [present |-> FALSE, value |-> ""]) :
     a \in AttributeLists(muts, reqs, childMuts)}

\* The field names of the documents: two that fold to "nm", one that folds
\* to "Id", one no schema declares.
DocKeys == {<<"n", "m">>, <<"N", "M">>, <<"i", "d">>, <<"x", "x">>}

DocValues == {NIL, "ok", "bad"}

\* The resources: the mappings of at most MaxFields fields, and three values
\* that are no mapping.
Resources ==
  {[kind |-> k, fields |-> <<>>] : k \in {"string", "array", "null"}}
  \cup UNION {{[kind |-> "object", fields |-> f] : f \in [K -> DocValues]} :
                K \in {K \in SUBSET DocKeys : Cardinality(K) <= MaxFields}}

\* The operation kinds: the three the guard knows and two it does not.
Operations == {"add", "replace", "remove", "Replace", "move"}

\* The paths: "NM", "Nm.Fn", "nm.xx", "id", "xx" and the unparsable "[".
Paths == {<< <<"N", "M">> >>,
          << <<"N", "m">>, <<"F", "n">> >>,
          << <<"n", "m">>, <<"x", "x">> >>,
          << <<"i", "d">> >>,
          << <<"x", "x">> >>,
          << <<"[">> >>}

PatchValues == {"ok", "bad"}

\* The path-to-value mappings of at most MaxPairs pairs.
OperationValues ==
  UNION {[K -> PatchValues] :
           K \in {K \in SUBSET Paths : Cardinality(K) <= MaxPairs}}

\* The orders in which a range over a map with the key set S may visit it.
Orderings(S) ==
  {o \in [1..Cardinality(S) -> S] :
     \A i, j \in 1..Cardinality(S) : i # j => o[i] # o[j]}

\* Every attribute of a list, children included.
RECURSIVE AllAttributes(_)
AllAttributes(attributes) ==
  UNION {{attributes[i]} \cup AllAttributes(attributes[i].subAttributes) :
           i \in 1..Len(attributes)}

----------------------------------------------------------------------------
(* The state machine: one call per behaviour. *)

NoReturn == [fn |-> "none"]

InitValidate ==
  /\ schema \in Schemas({attributeMutabilityReadWrite,
                           attributeMutabilityReadOnly},
                          BOOLEAN, {attributeMutabilityReadWrite})
  /\ call \in {[fn |-> "Validate", resource |-> r] : r \in Resources}
  /\ pc = "call"
  /\ ret = NoReturn
  /\ validateCalls = <<>>

InitPatch ==
  /\ schema \in Schemas(Mutabilities, {FALSE}, Mutabilities)
  /\ call \in {[fn |-> "ValidatePatchOperationValue", operation |-> op,
                operationValue |-> ov] :
                 op \in Operations, ov \in OperationValues}
  /\ pc = "call"
  /\ ret = NoReturn
  /\ validateCalls = <<>>

InitFind ==
  /\ schema \in Schemas(Mutabilities, {FALSE}, Mutabilities)
  /\ call \in {[fn |-> "findAttribute", operation |-> op, path |-> p] :
                 op \in Operations, p \in Paths}
  /\ pc = "call"
  /\ ret = NoReturn
  /\ validateCalls = <<>>

InitGuard ==
  /\ schema \in Schemas(Mutabilities, {FALSE}, Mutabilities)
  /\ Len(schema.Attributes) = 1
  /\ call \in {[fn |-> "cannotBePatched", op |-> op, attr |-> a] :
                 op \in Operations, a \in AllAttributes(schema.Attributes)}
  /\ pc = "call"
  /\ ret = NoReturn
  /\ validateCalls = <<>>

InitMarshal ==
  /\ schema \in {NewSchema(a, n, d) :
                   a \in AttributeLists(Mutabilities, {FALSE},
                                        {attributeMutabilityReadWrite}),
                   n \in Optionals, d \in Optionals}
  /\ call = [fn |-> "MarshalJSON"]
  /\ pc = "call"
  /\ ret = NoReturn
  /\ validateCalls = <<>>

CallValidate ==
  /\ pc = "call"
  /\ call.fn = "Validate"
  /\ \E orders \in [1..Len(schema.Attributes) ->
                      Orderings(DOMAIN call.resource.fields)] :
       LET r == Validate(schema, call.resource, orders) IN
       /\ ret' = [fn |-> "Validate", attributes |-> r.attributes,
                  err |-> r.err]
       /\ validateCalls' = r.calls
  /\ pc' = "return"
  /\ UNCHANGED <<schema, call>>

CallValidatePatchOperationValue ==
  /\ pc = "call"
  /\ call.fn = "ValidatePatchOperationValue"
  /\ \E order \in Orderings(DOMAIN call.operationValue) :
       LET r == ValidatePatchOperationValue(schema, call.operation,
                                            call.operationValue, order) IN
       /\ ret' = [fn |-> "ValidatePatchOperationValue", err |-> r.err]
       /\ validateCalls' = r.calls
  /\ pc' = "return"
  /\ UNCHANGED <<schema, call>>

CallFindAttribute ==
  /\ pc = "call"
  /\ call.fn = "findAttribute"
  /\ LET r == findAttribute(call.operation, call.path, schema.Attributes) IN
     ret' = [fn |-> "findAttribute", attr |-> r.attr, err |-> r.err]
  /\ pc' = "return"
  /\ UNCHANGED <<schema, call, validateCalls>>

CallCannotBePatched ==
  /\ pc = "call"
  /\ call.fn = "cannotBePatched"
  /\ ret' = [fn |-> "cannotBePatched",
             blocked |-> cannotBePatched(call.op, call.attr)]
  /\ pc' = "return"
  /\ UNCHANGED <<schema, call, validateCalls>>

CallMarshalJSON ==
  /\ pc = "call"
  /\ call.fn = "MarshalJSON"
  /\ ret' = [fn |-> "MarshalJSON", doc |-> MarshalJSON(schema)]
  /\ pc' = "return"
  /\ UNCHANGED <<schema, call, validateCalls>>

SpecValidate == InitValidate /\ [][CallValidate]_vars

SpecPatch == InitPatch /\ [][CallValidatePatchOperationValue]_vars

SpecFind == InitFind /\ [][CallFindAttribute]_vars

SpecGuard == InitGuard /\ [][CallCannotBePatched]_vars

SpecMarshal == InitMarshal /\ [][CallMarshalJSON]_vars

Init == InitValidate \/ InitPatch \/ InitFind \/ InitGuard \/ InitMarshal

Next ==
  \/ CallValidate
  \/ CallValidatePatchOperationValue
  \/ CallFindAttribute
  \/ CallCannotBePatched
  \/ CallMarshalJSON

Spec == Init /\ [][Next]_vars

TypeOK == pc \in {"call", "return"}

----------------------------------------------------------------------------
(* Vocabulary of the properties. *)

Returned(fn) == pc = "return" /\ call.fn = fn

\* The fields of a document that match an attribute case-insensitively.
Matches(attribute, fields) ==
  {k \in DOMAIN fields : EqualFold(attribute.name, k)}

\* The value validate is owed for an attribute: that of the matching field,
\* the absent marker when no field matches.
MatchedValue(attribute, fields) ==
  IF Matches(attribute, fields) = {}
    THEN NIL
    ELSE fields[CHOOSE k \in Matches(attribute, fields) : TRUE]

Accepts(attribute, v) == validate(attribute, v).err = ValidationErrorNil

Duplicated(attribute, fields) == Cardinality(Matches(attribute, fields)) >= 2

----------------------------------------------------------------------------
(* Schema.Validate *)

\* C1: Validate returns the no-error sentinel if and only if the resource is
\* a mapping, every declared attribute has at most one field matching its
\* name case-insensitively, and the validate capability of every declared
\* attribute accepts the value of its matching field (the absent marker when
\* it has none).
C1_ValidateSucceedsIff ==
  Returned("Validate") =>
    ( ret.err = ValidationErrorNil
      <=> /\ call.resource.kind = "object"
          /\ \A i \in 1..Len(schema.Attributes) :
               /\ ~Duplicated(schema.Attributes[i], call.resource.fields)
               /\ Accepts(schema.Attributes[i],
                          MatchedValue(schema.Attributes[i],
                                       call.resource.fields)) )

\* C1 witness: a successful validation of a two-attribute schema where one
\* attribute is matched by a field spelled in another case and the other has
\* no field at all.
C1_Witness ==
  /\ Returned("Validate")
  /\ ret.err = ValidationErrorNil
  /\ Len(schema.Attributes) = 2
  /\ DOMAIN call.resource.fields = {<<"N", "M">>, <<"x", "x">>}
  /\ call.resource.fields[<<"N", "M">>] = "ok"
  /\ validateCalls = << <<nmName, "ok">>, <<idName, NIL>> >>

\* The first declared attribute that two or more fields match, 0 if none.
FirstDuplicated(s, fields) ==
  IF \E i \in 1..Len(s.Attributes) : Duplicated(s.Attributes[i], fields)
    THEN CHOOSE i \in 1..Len(s.Attributes) :
           /\ Duplicated(s.Attributes[i], fields)
           /\ \A j \in 1..(i - 1) : ~Duplicated(s.Attributes[j], fields)
    ELSE 0

\* C2 as stated: a mapping with two or more fields matching some declared
\* attribute fails with invalid-syntax, whatever the attribute's position and
\* whatever the other validators return.
C2_DuplicateAlwaysInvalidSyntax ==
  ( /\ Returned("Validate")
    /\ call.resource.kind = "object"
    /\ FirstDuplicated(schema, call.resource.fields) # 0 )
  => ret.err = ValidationErrorInvalidSyntax

\* C2 amended: such a mapping always fails; the error is invalid-syntax when
\* every attribute declared before the first duplicated one is accepted by
\* its validator, and otherwise the error of the first of those validators
\* that rejects.
C2_DuplicateFailsFirstErrorWins ==
  ( /\ Returned("Validate")
    /\ call.resource.kind = "object"
    /\ FirstDuplicated(schema, call.resource.fields) # 0 )
  => LET fields == call.resource.fields
         d == FirstDuplicated(schema, fields)
         rejected == {j \in 1..(d - 1) :
                        ~Accepts(schema.Attributes[j],
                                 MatchedValue(schema.Attributes[j], fields))}
     IN /\ ret.err # ValidationErrorNil
        /\ ret.attributes = <<>>
        /\ rejected = {} => ret.err = ValidationErrorInvalidSyntax
        /\ rejected # {} =>
             LET j == CHOOSE j \in rejected : \A l \in rejected : j <= l IN
             ret.err = validate(schema.Attributes[j],
                                MatchedValue(schema.Attributes[j], fields)).err

\* C2 witness: the duplicated attribute is declared second, the first one is
\* accepted, and the call fails with invalid-syntax.
C2_Witness ==
  /\ Returned("Validate")
  /\ call.resource.kind = "object"
  /\ FirstDuplicated(schema, call.resource.fields) = 2
  /\ Len(validateCalls) = 1
  /\ ret.err = ValidationErrorInvalidSyntax

----------------------------------------------------------------------------
(* cannotBePatched *)

KnownOperations == {"add", "replace", "remove"}

\* C3: the guard follows the mutability table: a ReadOnly attribute is
\* blocked for every operation kind, an Immutable one is blocked for
\* "replace" and "remove" and allowed for "add", a ReadWrite and a WriteOnly
\* one are allowed for every operation kind.
C3_MutabilityTable ==
  Returned("cannotBePatched") =>
    LET m == call.attr.mutability IN
    /\ m = attributeMutabilityReadOnly => ret.blocked
    /\ (m = attributeMutabilityImmutable /\ call.op \in {"replace", "remove"})
         => ret.blocked
    /\ (m = attributeMutabilityImmutable /\ call.op = "add") => ~ret.blocked
    /\ m \in {attributeMutabilityReadWrite, attributeMutabilityWriteOnly}
         => ~ret.blocked

\* C3 witness: the guard has let "add" through on an Immutable attribute.
C3_Witness ==
  /\ Returned("cannotBePatched")
  /\ call.attr.mutability = attributeMutabilityImmutable
  /\ call.op = "add"
  /\ ~ret.blocked

----------------------------------------------------------------------------
(* findAttribute *)

\* The attributes a path names, hop by hop, mutability left aside: the first
\* sibling matching each segment, descending while the match has children.
\* complete is FALSE when a segment does not parse or matches no sibling.
RECURSIVE Hops(_, _)
Hops(path, attributes) ==
  LET p == ParsePath(path) IN
  IF p.err
    THEN [hops |-> <<>>, complete |-> FALSE]
    ELSE
      LET i == FirstMatch(attributes, p.AttributeName) IN
      IF i = 0
        THEN [hops |-> <<>>, complete |-> FALSE]
        ELSE IF p.SubAttribute # <<>> /\ Len(attributes[i].subAttributes) > 0
          THEN LET r == Hops(p.SubAttribute, attributes[i].subAttributes) IN
               [hops |-> <<attributes[i]>> \o r.hops, complete |-> r.complete]
          ELSE [hops |-> <<attributes[i]>>, complete |-> TRUE]

\* C6: a two-segment path whose first segment matches an attribute with
\* children resolves to the child its second segment matches (each segment
\* compared case-insensitively), never to the parent; when the second segment
\* matches no child the resolution fails with invalid-value.
C6_NestedResolution ==
  ( /\ Returned("findAttribute")
    /\ Len(call.path) = 2
    /\ ~ParsePath(call.path).err
    /\ FirstMatch(schema.Attributes, call.path[1]) # 0 )
  => LET parent == schema.Attributes[FirstMatch(schema.Attributes, call.path[1])]
         c == FirstMatch(parent.subAttributes, call.path[2])
     IN
     Len(parent.subAttributes) > 0 =>
       /\ ret.attr # <<parent>>
       /\ c = 0 => /\ ret.attr = <<>>
                   /\ ret.err = ValidationErrorInvalidValue
       /\ ( /\ c # 0
            /\ ~cannotBePatched(call.operation, parent)
            /\ ~cannotBePatched(call.operation, parent.subAttributes[c]) )
          => /\ ret.attr = <<parent.subAttributes[c]>>
             /\ ret.err = ValidationErrorNil

\* C6 witness: the path "Nm.Fn" has been resolved to the child "fN" of "nm".
C6_Witness ==
  /\ Returned("findAttribute")
  /\ call.path = << <<"N", "m">>, <<"F", "n">> >>
  /\ ret.err = ValidationErrorNil
  /\ Len(ret.attr) = 1
  /\ ret.attr[1].name = fnName

\* C9: the guard is applied at every hop: when any attribute the path names
\* is blocked for the operation the resolution yields invalid-value and no
\* attribute, and a path resolves successfully only if every attribute from
\* the top level down to the returned one is not blocked.
C9_GuardAtEveryHop ==
  Returned("findAttribute") =>
    LET h == Hops(call.path, schema.Attributes) IN
    /\ (\E i \in 1..Len(h.hops) : cannotBePatched(call.operation, h.hops[i]))
         => /\ ret.attr = <<>>
            /\ ret.err = ValidationErrorInvalidValue
    /\ ret.err = ValidationErrorNil
         => /\ h.complete
            /\ \A i \in 1..Len(h.hops) :
                 ~cannotBePatched(call.operation, h.hops[i])
            /\ ret.attr = <<h.hops[Len(h.hops)]>>

\* C9 witness: the parent is blocked, the addressed child is not, and the
\* resolution has failed.
C9_Witness ==
  /\ Returned("findAttribute")
  /\ LET h == Hops(call.path, schema.Attributes) IN
     /\ Len(h.hops) = 2
     /\ cannotBePatched(call.operation, h.hops[1])
     /\ ~cannotBePatched(call.operation, h.hops[2])
  /\ ret.attr = <<>>
  /\ ret.err = ValidationErrorInvalidValue

----------------------------------------------------------------------------
(* Schema.ValidatePatchOperationValue *)

\* A path resolves for an operation: every segment matches and no attribute
\* it names is blocked.
Resolves(operation, path) ==
  LET h == Hops(path, schema.Attributes) IN
  /\ h.complete
  /\ \A i \in 1..Len(h.hops) : ~cannotBePatched(operation, h.hops[i])

\* The attribute a path addresses.
Target(path) ==
  LET h == Hops(path, schema.Attributes) IN h.hops[Len(h.hops)]

\* The validate calls made, as a set.
CallsMade == {validateCalls[i] : i \in 1..Len(validateCalls)}

\* C4: for "remove" the validate capability is never called, and the
\* instruction succeeds when every path resolves to an attribute that is not
\* blocked, whatever the values are.
C4_RemoveSkipsValidation ==
  (Returned("ValidatePatchOperationValue") /\ call.operation = "remove")
  => /\ validateCalls = <<>>
     /\ (\A k \in DOMAIN call.operationValue : Resolves("remove", k))
          => ret.err = ValidationErrorNil

\* C4 witness: a "remove" of a resolvable path paired with a value its
\* attribute's validator rejects has succeeded.
C4_Witness ==
  /\ Returned("ValidatePatchOperationValue")
  /\ call.operation = "remove"
  /\ \E k \in DOMAIN call.operationValue :
       /\ Resolves("remove", k)
       /\ ~Accepts(Target(k), call.operationValue[k])
  /\ ret.err = ValidationErrorNil

\* C5 as stated: when some pair fails to resolve, the instruction fails with
\* the invalid-value error whatever the other pairs contain.
C5_ResolutionFailureIsInvalidValue ==
  ( /\ Returned("ValidatePatchOperationValue")
    /\ \E k \in DOMAIN call.operationValue : ~Resolves(call.operation, k) )
  => ret.err = ValidationErrorInvalidValue

\* C5 amended: when some pair fails to resolve, the instruction fails; the
\* error is invalid-value, or, when the operation is not "remove", the error
\* with which the validator of another, resolving pair rejects its value.
C5_ResolutionFailureFails ==
  ( /\ Returned("ValidatePatchOperationValue")
    /\ \E k \in DOMAIN call.operationValue : ~Resolves(call.operation, k) )
  => /\ ret.err # ValidationErrorNil
     /\ \/ ret.err = ValidationErrorInvalidValue
        \/ /\ call.operation # "remove"
           /\ \E k \in DOMAIN call.operationValue :
                /\ Resolves(call.operation, k)
                /\ validate(Target(k), call.operationValue[k]).err = ret.err
     /\ ( \/ call.operation = "remove"
          \/ \A k \in DOMAIN call.operationValue :
               Resolves(call.operation, k)
                 => validate(Target(k), call.operationValue[k]).err
                      # ValidationErrorInvalidSyntax )
        => ret.err = ValidationErrorInvalidValue

\* C5 witness: of two pairs one does not resolve and the other is accepted,
\* and the instruction has failed with invalid-value.
C5_Witness ==
  /\ Returned("ValidatePatchOperationValue")
  /\ Cardinality(DOMAIN call.operationValue) = 2
  /\ \E k1, k2 \in DOMAIN call.operationValue :
       /\ ~Resolves(call.operation, k1)
       /\ Resolves(call.operation, k2)
       /\ Accepts(Target(k2), call.operationValue[k2])
  /\ call.operation # "remove"
  /\ ret.err = ValidationErrorInvalidValue

\* C10: whatever the order in which the pairs are visited, the instruction
\* succeeds if and only if every pair resolves to an unblocked attribute and,
\* unless the operation is "remove", that attribute's validator accepts the
\* pair's value; the empty mapping succeeds.
C10_OutcomeIndependentOfOrder ==
  Returned("ValidatePatchOperationValue") =>
    ( ret.err = ValidationErrorNil
      <=> \A k \in DOMAIN call.operationValue :
            /\ Resolves(call.operation, k)
            /\ call.operation # "remove"
                 => Accepts(Target(k), call.operationValue[k]) )

\* C10 witness: two pairs that fail in different ways, a validator's
\* invalid-syntax and an unresolvable path, so that the visiting order
\* decides the error; the instruction has failed.
C10_Witness ==
  /\ Returned("ValidatePatchOperationValue")
  /\ Cardinality(DOMAIN call.operationValue) = 2
  /\ \E k1, k2 \in DOMAIN call.operationValue :
       /\ ~Resolves(call.operation, k1)
       /\ Resolves(call.operation, k2)
       /\ validate(Target(k2), call.operationValue[k2]).err
            = ValidationErrorInvalidSyntax
  /\ call.operation # "remove"
  /\ ret.err = ValidationErrorInvalidSyntax

\* C7 as stated: an operation name outside "add", "replace", "remove" passes
\* the guard for an attribute of every mutability class, so that the
\* instruction succeeds whenever every path names declared attributes and
\* every value is accepted.
C7_UnknownOperationUnrestricted ==
  /\ (Returned("cannotBePatched") /\ call.op \notin KnownOperations)
       => ~ret.blocked
  /\ ( /\ Returned("ValidatePatchOperationValue")
       /\ call.operation \notin KnownOperations
       /\ \A k \in DOMAIN call.operationValue :
            /\ Hops(k, schema.Attributes).complete
            /\ Accepts(Target(k), call.operationValue[k]) )
     => ret.err = ValidationErrorNil

\* C7 amended: for an operation name outside "add", "replace", "remove" the
\* guard blocks the ReadOnly attributes and no others; the instruction
\* succeeds if and only if no path names a ReadOnly or undeclared attribute
\* and every value is accepted, and the value of every pair is then passed
\* to the validator of the attribute its path addresses.
C7_UnknownOperationBlockedOnlyByReadOnly ==
  /\ (Returned("cannotBePatched") /\ call.op \notin KnownOperations)
       => (ret.blocked <=> call.attr.mutability = attributeMutabilityReadOnly)
  /\ ( /\ Returned("ValidatePatchOperationValue")
       /\ call.operation \notin KnownOperations )
     => /\ ret.err = ValidationErrorNil
           <=> \A k \in DOMAIN call.operationValue :
                 LET h == Hops(k, schema.Attributes) IN
                 /\ h.complete
                 /\ \A i \in 1..Len(h.hops) :
                      h.hops[i].mutability # attributeMutabilityReadOnly
                 /\ Accepts(Target(k), call.operationValue[k])
        /\ ret.err = ValidationErrorNil
             => CallsMade = {<<Target(k).name, call.operationValue[k]>> :
                               k \in DOMAIN call.operationValue}

\* C7 witness: the operation "Replace" on a path through Immutable
\* attributes has succeeded and its value has been passed to the validator.
C7_Witness ==
  /\ Returned("ValidatePatchOperationValue")
  /\ call.operation = "Replace"
  /\ \E k \in DOMAIN call.operationValue :
       LET h == Hops(k, schema.Attributes) IN
       /\ h.complete
       /\ Len(h.hops) = 2
       /\ \A i \in 1..2 : h.hops[i].mutability = attributeMutabilityImmutable
  /\ ret.err = ValidationErrorNil
  /\ Len(validateCalls) >= 1

----------------------------------------------------------------------------
(* Schema.MarshalJSON *)

JSONKeys == {"id", "name", "description", "attributes"}

\* An optional rendered as its string when set, as null or the empty string
\* when absent.
RendersOptional(o, json) ==
  IF o.present
    THEN json = [type |-> "string", value |-> o.value]
    ELSE \/ json.type = "null"
         \/ json = [type |-> "string", value |-> ""]

====
